---- MODULE Spec2Model ----
(***************************************************************************)
(* A model of the hover client (src/hover.go): the Login handshake, the    *)
(* six Client operations built on Client.do, and the JSON scalar codecs    *)
(* (DomainID, DNSRecordID, TTL, Date, YearMonth).                          *)
(*                                                                         *)
(* Byte strings whose characters the code inspects ([]byte arguments of    *)
(* UnmarshalJSON, identifiers spliced into URLs) are sequences of          *)
(* one-character strings.  Other Go strings are TLA+ strings.              *)
(* int and int64 are 64 bits wide: a value is its two's complement bit     *)
(* pattern, four 16-bit limbs, least significant first.                    *)
(***************************************************************************)
EXTENDS Integers, Sequences, FiniteSets, TLC

VARIABLES
    client,   \* the *Client made by NewClient, or NoClient before it
    login,    \* the one Login call: its position, response and return value
    call,     \* call[c]: caller c's current Client operation
    nreq,     \* number of requests Client.do has handed to the transport
    codec     \* one application of a scalar codec: its input and its output

vars == <<client, login, call, nreq, codec>>

-----------------------------------------------------------------------------
(* Bounds of the model *)

\* the transport is observed for this many Client.do requests
MaxRequests == 2
\* a login response carries at most this many cookies
MaxCookies == 2
\* decimal inputs of the TTL codec have at most this many generated digits
MaxDigits == 3

-----------------------------------------------------------------------------
(* Bytes and errors *)

Digits == <<"0", "1", "2", "3", "4", "5", "6", "7", "8", "9">>

IsDigit(ch) == \E i \in 1..Len(Digits) : Digits[i] = ch

DigitVal(ch) == (CHOOSE i \in 1..Len(Digits) : Digits[i] = ch) - 1

DigitChar(n) == Digits[n + 1]

AllDigits(s) == \A i \in 1..Len(s) : IsDigit(s[i])

\* the nil error
Nil == [kind |-> "nil"]

\* fmt.Errorf("unable to parse a <T> from %#v", string(b)) and the like: an
\* error of the decoding layer that names the target type and the raw input
ShapeError(type, b) == [kind |-> "DecodeError", type |-> type, raw |-> b]

\* fmt.Errorf("...: %s", err): a new, non-nil error whose text formats err,
\* whatever err is (a nil err is formatted as %!s(<nil>))
WrapError(type, err) == [kind |-> "DecodeError", type |-> type, wraps |-> err]

\* b[0] == '"' && b[len(b)-1] == '"'
Quoted(b) == b[1] = "\"" /\ b[Len(b)] = "\""

\* b[1 : len(b)-1]
Strip(b) == SubSeq(b, 2, Len(b) - 1)

-----------------------------------------------------------------------------
(* 64-bit integers *)

Base == 2 ^ 16

Zero64 == <<0, 0, 0, 0>>

Limbs == Len(Zero64)

\* x * m + carry over the limbs of x, one limb longer than x
RECURSIVE MulAdd(_, _, _)
MulAdd(x, m, carry) ==
    IF x = <<>> THEN <<carry>>
    ELSE LET t == Head(x) * m + carry
         IN  <<t % Base>> \o MulAdd(Tail(x), m, t \div Base)

\* the low 64 bits
Wrap64(x) == SubSeq(x, 1, Limbs)

\* two's complement negation, mod 2^64
Neg64(x) == Wrap64(MulAdd([i \in 1..Limbs |-> Base - 1 - x[i]], 1, 1))

\* the sign bit
IsNeg64(x) == x[Limbs] >= Base \div 2

\* the magnitude of the int64 x, as an unsigned 64-bit number
Abs64(x) == IF IsNeg64(x) THEN Neg64(x) ELSE x

\* unsigned x divided by the small m: the quotient, limbs done from the most
\* significant one down
RECURSIVE DivSmall(_, _, _)
DivSmall(x, m, rem) ==
    IF x = <<>> THEN <<>>
    ELSE LET n == Len(x)
             t == rem * Base + x[n]
         IN  DivSmall(SubSeq(x, 1, n - 1), m, t % m) \o <<t \div m>>

\* unsigned x modulo the small m
RECURSIVE ModSmall(_, _, _)
ModSmall(x, m, rem) ==
    IF x = <<>> THEN rem
    ELSE LET n == Len(x)
         IN  ModSmall(SubSeq(x, 1, n - 1), m, (rem * Base + x[n]) % m)

\* int64 multiplication by 10^k, wrapping as Go's does
RECURSIVE MulPow10(_, _)
MulPow10(x, k) ==
    IF k = 0 THEN x ELSE MulPow10(Wrap64(MulAdd(x, 10, 0)), k - 1)

\* unsigned division by 10^k
RECURSIVE DivPow10(_, _)
DivPow10(x, k) ==
    IF k = 0 THEN x ELSE DivPow10(DivSmall(x, 10, 0), k - 1)

\* the decimal digits of the unsigned x ("0" for zero)
RECURSIVE UDecimal(_)
UDecimal(x) ==
    LET q == DivSmall(x, 10, 0)
        d == <<DigitChar(ModSmall(x, 10, 0))>>
    IN  IF q = [i \in 1..Len(x) |-> 0] THEN d ELSE UDecimal(q) \o d

\* strconv.Itoa of the int x
Itoa(x) == IF IsNeg64(x) THEN <<"-">> \o UDecimal(Neg64(x)) ELSE UDecimal(x)

\* the unsigned value of a digit string, ok = FALSE once it passes 2^64 - 1
RECURSIVE ParseUint(_, _)
ParseUint(s, acc) ==
    IF s = <<>> THEN [ok |-> TRUE, val |-> acc]
    ELSE LET t == MulAdd(acc, 10, DigitVal(Head(s)))
         IN  IF t[Limbs + 1] # 0 THEN [ok |-> FALSE, val |-> Zero64]
             ELSE ParseUint(Tail(s), Wrap64(t))

\* strconv.Atoi: an optional sign, then one or more decimal digits, within
\* [-2^63, 2^63 - 1]
Atoi(s) ==
    LET signed == Len(s) > 0 /\ s[1] \in {"+", "-"}
        neg    == Len(s) > 0 /\ s[1] = "-"
        ds     == IF signed THEN Tail(s) ELSE s
        u      == ParseUint(ds, Zero64)
        bad    == [ok |-> FALSE, val |-> Zero64]
    IN  IF ds = <<>> \/ ~AllDigits(ds) THEN bad
        ELSE IF ~u.ok THEN bad
        ELSE IF ~neg /\ IsNeg64(u.val) THEN bad
        ELSE IF neg /\ IsNeg64(u.val) /\ u.val # <<0, 0, 0, Base \div 2>> THEN bad
        ELSE [ok |-> TRUE, val |-> IF neg THEN Neg64(u.val) ELSE u.val]

\* d * time.Second, a time.Duration (int64 nanoseconds)
TimesSecond(d) == MulPow10(d, 9)

\* int(d / time.Second): Go's signed division truncates toward zero
WholeSeconds(d) ==
    LET q == DivPow10(Abs64(d), 9)
    IN  IF IsNeg64(d) THEN Neg64(q) ELSE q

-----------------------------------------------------------------------------
(* Scalar codecs *)

\* RecordType.UnmarshalJSON: the rt it leaves behind and the error
RecordTypeUnmarshalJSON(b) ==
    IF Quoted(b) THEN [val |-> Strip(b), err |-> Nil]
    ELSE [val |-> <<>>, err |-> ShapeError("RecordType", b)]

\* DomainID.UnmarshalJSON (its message names DNSRecordID, as in the source)
DomainIDUnmarshalJSON(b) ==
    IF Quoted(b) THEN [val |-> Strip(b), err |-> Nil]
    ELSE [val |-> <<>>, err |-> ShapeError("DNSRecordID", b)]

\* DNSRecordID.UnmarshalJSON
DNSRecordIDUnmarshalJSON(b) ==
    IF Quoted(b) THEN [val |-> Strip(b), err |-> Nil]
    ELSE [val |-> <<>>, err |-> ShapeError("DNSRecordID", b)]

\* TTL.UnmarshalJSON: the TTL (nanoseconds) it leaves behind and the error
TTLUnmarshalJSON(b) ==
    LET a == Atoi(b)
    IN  IF ~a.ok THEN [val |-> Zero64, err |-> ShapeError("TTL", b)]
        ELSE [val |-> TimesSecond(a.val), err |-> Nil]

\* the zero time.Time, January 1 of year 1
ZeroTime == [year |-> 1, month |-> 1, day |-> 1]

\* the number two digits spell, and the one four digits spell
Num2(s) == 10 * DigitVal(s[1]) + DigitVal(s[2])

Num4(s) == 100 * Num2(SubSeq(s, 1, 2)) + Num2(SubSeq(s, 3, 4))

IsLeap(y) == y % 4 = 0 /\ (y % 100 # 0 \/ y % 400 = 0)

DaysIn(m, y) ==
    IF m = 2 THEN (IF IsLeap(y) THEN 29 ELSE 28)
    ELSE IF m \in {4, 6, 9, 11} THEN 30 ELSE 31

\* time.Parse("2006-01-02", s): four digits of year, two of month, two of
\* day, dashes between, nothing after; month and day in range
ParseDate(s) ==
    LET shaped == /\ Len(s) = 10
                  /\ AllDigits(SubSeq(s, 1, 4))
                  /\ s[5] = "-"
                  /\ AllDigits(SubSeq(s, 6, 7))
                  /\ s[8] = "-"
                  /\ AllDigits(SubSeq(s, 9, 10))
        y == Num4(SubSeq(s, 1, 4))
        m == Num2(SubSeq(s, 6, 7))
        d == Num2(SubSeq(s, 9, 10))
    IN  IF shaped /\ m \in 1..12 /\ d \in 1..DaysIn(m, y)
        THEN [time |-> [year |-> y, month |-> m, day |-> d], err |-> Nil]
        ELSE [time |-> ZeroTime, err |-> [kind |-> "ParseError", value |-> s]]

\* time.Parse("2006/01", s): the day is the first of the month
ParseYearMonth(s) ==
    LET shaped == /\ Len(s) = 7
                  /\ AllDigits(SubSeq(s, 1, 4))
                  /\ s[5] = "/"
                  /\ AllDigits(SubSeq(s, 6, 7))
        y == Num4(SubSeq(s, 1, 4))
        m == Num2(SubSeq(s, 6, 7))
    IN  IF shaped /\ m \in 1..12
        THEN [time |-> [year |-> y, month |-> m, day |-> 1], err |-> Nil]
        ELSE [time |-> ZeroTime, err |-> [kind |-> "ParseError", value |-> s]]

\* the last statement of Date.UnmarshalJSON: return fmt.Errorf("unable to
\* parse the Date string: %s", err), executed whether or not err is nil
DateReturn(err) == WrapError("Date", err)

\* Date.UnmarshalJSON: the d.Time it leaves behind and the error
DateUnmarshalJSON(b) ==
    IF ~Quoted(b) THEN [time |-> ZeroTime, err |-> ShapeError("Date", b)]
    ELSE LET p == ParseDate(Strip(b))
         IN  [time |-> p.time, err |-> DateReturn(p.err)]

\* the last statement of YearMonth.UnmarshalJSON, likewise unconditional
YearMonthReturn(err) == WrapError("YearMonth", err)

\* YearMonth.UnmarshalJSON
YearMonthUnmarshalJSON(b) ==
    IF ~Quoted(b) THEN [time |-> ZeroTime, err |-> ShapeError("YearMonth", b)]
    ELSE LET p == ParseYearMonth(Strip(b))
         IN  [time |-> p.time, err |-> YearMonthReturn(p.err)]

\* the ttl query parameter of AddDNSRecord:
\* strconv.Itoa(int(rec.TTL / time.Second))
TTLParam(d) == Itoa(WholeSeconds(d))

-----------------------------------------------------------------------------
(* Wire data: what the server may answer *)

Q == "\""

\* the JSON string literal of the characters s
Lit(s) == <<Q>> \o s \o <<Q>>

\* a JSON key the body does not carry
Absent == <<>>

D1 == <<"d", "1">>

D2 == <<"d", "2">>

GoodDate == <<"2", "0", "2", "0", "-", "0", "3", "-", "0", "5">>

GoodYearMonth == <<"2", "0", "2", "7", "/", "0", "8">>

\* a domain object of the wire: the raw JSON of the fields Domain decodes
\* with an UnmarshalJSON method, and the domain name
PlainDomain(id, name) ==
    [id |-> id, domain_name |-> name, renewal_date |-> Absent,
     display_date |-> Absent, registered_date |-> Absent,
     card_expires |-> Absent]

W1 == PlainDomain(Lit(D1), "example.com")

W2 == PlainDomain(Lit(D2), "example.org")

WRenewal == [W1 EXCEPT !.renewal_date = Lit(GoodDate)]

WDisplay == [W2 EXCEPT !.display_date = Lit(GoodDate)]

WRegistered == [W1 EXCEPT !.registered_date = Lit(GoodDate)]

WCard == [W2 EXCEPT !.card_expires = Lit(GoodYearMonth)]

\* an id that is a JSON number, not a string
WBadID == PlainDomain(<<"7">>, "example.net")

\* the "domains" arrays answered to Domains
DomainLists ==
    {<<W1, W2>>, <<W2, W1>>, <<WRenewal>>, <<W1, WDisplay>>, <<WRegistered>>,
     <<WCard>>, <<WBadID>>}

\* the "domain" objects answered to GetDomain
DomainObjects == {W1, WRenewal, WBadID}

\* a DNS record object of the wire
E900 ==
    [id |-> Lit(<<"r", "1">>), type |-> Lit(<<"A">>), name |-> "www",
     content |-> "192.0.2.1", ttl |-> <<"9", "0", "0">>]

ETxt ==
    [id |-> Lit(<<"r", "2">>), type |-> Lit(<<"T", "X", "T">>), name |-> "@",
     content |-> "coolstuff", ttl |-> <<"6", "0">>]

\* a ttl that is a JSON string
EQuotedTTL == [E900 EXCEPT !.ttl = Lit(<<"9", "0", "0">>)]

N1 == [id |-> Lit(D1), domain_name |-> "example.com", active |-> TRUE,
       entries |-> <<E900, ETxt>>]

N2 == [id |-> Lit(D2), domain_name |-> "example.org", active |-> FALSE,
       entries |-> <<>>]

NBadTTL == [N1 EXCEPT !.entries = <<EQuotedTTL>>]

\* the "domains" arrays answered to DNS and GetDNSDomains
DNSDomainLists == {<<N1, N2>>, <<NBadTTL>>}

\* the envelope fields the server may send
Envelopes ==
    {[succeeded |-> TRUE, error_code |-> "", error |-> ""],
     [succeeded |-> FALSE, error_code |-> "E1", error |-> "bad"]}

\* a body that is not JSON
NotJSON == [json |-> FALSE]

JSONBody(env, payload) ==
    [json |-> TRUE, succeeded |-> env.succeeded, error_code |-> env.error_code,
     error |-> env.error, payload |-> payload]

\* a payload key the body does not carry
NoPayload == [present |-> FALSE]

Payload(p) == [present |-> TRUE, json |-> p]

Ops == {"Domains", "DNS", "GetDomain", "GetDNSDomains", "AddDNSRecord",
        "DeleteDNSRecord"}

\* the payloads a body answering op may carry under the key op decodes
Payloads(op) ==
    CASE op = "Domains" -> {Payload(p) : p \in DomainLists}
      [] op = "GetDomain" -> {Payload(p) : p \in DomainObjects}
      [] op \in {"DNS", "GetDNSDomains"} -> {Payload(p) : p \in DNSDomainLists}
      [] OTHER -> {NoPayload}

Bodies(op) ==
    {NotJSON} \cup {JSONBody(e, p) : e \in Envelopes, p \in Payloads(op)}

\* HTTP status codes the server may answer with
Statuses == {200, 400}

Is2xx(status) == status \in 200..299

-----------------------------------------------------------------------------
(* json.Unmarshal into the response structs *)

\* the first error of a sequence of errors, Nil when there is none: Unmarshal
\* stops at the first UnmarshalJSON method that fails
FirstErr(errs) ==
    IF \A i \in 1..Len(errs) : errs[i] = Nil THEN Nil
    ELSE errs[CHOOSE i \in 1..Len(errs) :
                  errs[i] # Nil /\ \A j \in 1..(i - 1) : errs[j] = Nil]

\* a field with an UnmarshalJSON method: the method runs only when the key
\* is present
DateField(tok) ==
    IF tok = Absent THEN [time |-> ZeroTime, err |-> Nil]
    ELSE DateUnmarshalJSON(tok)

YearMonthField(tok) ==
    IF tok = Absent THEN [time |-> ZeroTime, err |-> Nil]
    ELSE YearMonthUnmarshalJSON(tok)

DomainIDField(tok) ==
    IF tok = Absent THEN [val |-> <<>>, err |-> Nil]
    ELSE DomainIDUnmarshalJSON(tok)

\* a wire domain object decoded into a Domain
DecodeDomain(w) ==
    LET id  == DomainIDField(w.id)
        rd  == DateField(w.renewal_date)
        dd  == DateField(w.display_date)
        ce  == YearMonthField(w.card_expires)
        reg == DateField(w.registered_date)
    IN  [err |-> FirstErr(<<id.err, rd.err, dd.err, ce.err, reg.err>>),
         val |-> [ID |-> id.val, DomainName |-> w.domain_name,
                  RenewalDate |-> rd.time, DisplayDate |-> dd.time,
                  CardExpires |-> ce.time, RegisteredDate |-> reg.time]]

\* a wire DNS record object decoded into a DNSRecord
DecodeDNSRecord(e) ==
    LET id  == DNSRecordIDUnmarshalJSON(e.id)
        ty  == RecordTypeUnmarshalJSON(e.type)
        ttl == TTLUnmarshalJSON(e.ttl)
    IN  [err |-> FirstErr(<<id.err, ty.err, ttl.err>>),
         val |-> [ID |-> id.val, Type |-> ty.val, Name |-> e.name,
                  Content |-> e.content, TTL |-> ttl.val]]

\* a JSON array whose elements decode, in order, to ds
DecodeArray(ds) ==
    [err |-> FirstErr([i \in 1..Len(ds) |-> ds[i].err]),
     val |-> [i \in 1..Len(ds) |-> ds[i].val]]

\* a wire DNS domain object decoded into a DNSDomain
DecodeDNSDomain(n) ==
    LET id == DomainIDField(n.id)
        es == DecodeArray([i \in 1..Len(n.entries) |->
                               DecodeDNSRecord(n.entries[i])])
    IN  [err |-> FirstErr(<<id.err, es.err>>),
         val |-> [ID |-> id.val, DomainName |-> n.domain_name,
                  Active |-> n.active, Entries |-> es.val]]

\* a Go nil: the zero value of a slice or a pointer
NoValue == [nil |-> TRUE]

Value(v) == [nil |-> FALSE, v |-> v]

\* the payload field of op's response struct after Unmarshal; hoverResp, the
\* struct of AddDNSRecord and DeleteDNSRecord, has none
DecodePayload(op, payload) ==
    IF ~payload.present \/ op \in {"AddDNSRecord", "DeleteDNSRecord"}
    THEN [err |-> Nil, val |-> NoValue]
    ELSE LET ws == payload.json
             d == CASE op = "Domains" ->
                        DecodeArray([i \in 1..Len(ws) |-> DecodeDomain(ws[i])])
                    [] op = "GetDomain" -> DecodeDomain(ws)
                    [] OTHER ->
                        DecodeArray([i \in 1..Len(ws) |-> DecodeDNSDomain(ws[i])])
         IN  [err |-> d.err, val |-> Value(d.val)]

\* the zero response struct
ZeroResp ==
    [Succeeded |-> FALSE, ErrorCode |-> "", Error |-> "", Payload |-> NoValue]

\* json.Unmarshal(body, obj): the error, and obj afterwards.  The handlers
\* return before reading obj when the error is not nil, so what a failed
\* Unmarshal has stored by then is not kept.
Unmarshal(op, body) ==
    IF ~body.json
    THEN [err |-> [kind |-> "SyntaxError"], dr |-> ZeroResp]
    ELSE LET p == DecodePayload(op, body.payload)
         IN  IF p.err # Nil THEN [err |-> p.err, dr |-> ZeroResp]
             ELSE [err |-> Nil,
                   dr |-> [Succeeded |-> body.succeeded,
                           ErrorCode |-> body.error_code,
                           Error |-> body.error, Payload |-> p.val]]

-----------------------------------------------------------------------------
(* Client.do and the operations *)

defaultURL == "https://www.hover.com/api"

IsHex(ch) ==
    IsDigit(ch) \/ ch \in {"a", "b", "c", "d", "e", "f",
                           "A", "B", "C", "D", "E", "F"}

\* url.Parse, called by http.NewRequest, rejects a "%" that two hex digits
\* do not follow
ValidEscapes(url) ==
    \A i \in 1..Len(url) :
        url[i] = "%" =>
            i + 2 <= Len(url) /\ IsHex(url[i + 1]) /\ IsHex(url[i + 2])

Method(op) ==
    CASE op = "AddDNSRecord" -> "POST"
      [] op = "DeleteDNSRecord" -> "DELETE"
      [] OTHER -> "GET"

\* v.Encode() of AddDNSRecord's url.Values: the keys sorted.  The record
\* fields of the model hold no character that query escaping changes.
Query(rec) ==
    <<"content=", rec.Content, "&name=", rec.Name, "&ttl=">>
        \o TTLParam(rec.TTL) \o <<"&type=", rec.Type>>

\* the URL string of an operation, as the pieces it is formatted from; the
\* identifier goes in character by character, unescaped
URLOf(op, id, rec) ==
    CASE op = "Domains" -> <<defaultURL, "/domains">>
      [] op = "DNS" -> <<defaultURL, "/dns">>
      [] op = "GetDomain" -> <<defaultURL, "/domains/">> \o id
      [] op = "GetDNSDomains" -> <<defaultURL, "/domains/">> \o id \o <<"/dns">>
      [] op = "AddDNSRecord" ->
             <<defaultURL, "/domains/">> \o id \o <<"/dns?">> \o Query(rec)
      [] OTHER -> <<defaultURL, "/dns/">> \o id

\* Precondition without AddDNSRecord's test of rec.Content
PreconditionIDOnly(op, id, rec) ==
    IF op \in {"GetDomain", "GetDNSDomains", "AddDNSRecord"} /\ id = <<>>
    THEN [kind |-> "errors.New", msg |-> "empty domainID"]
    ELSE Nil

\* the checks an operation makes before it builds its request
Precondition(op, id, rec) ==
    IF op \in {"GetDomain", "GetDNSDomains", "AddDNSRecord"} /\ id = <<>>
    THEN [kind |-> "errors.New", msg |-> "empty domainID"]
    ELSE IF op = "AddDNSRecord" /\ rec.Content = ""
    THEN [kind |-> "errors.New", msg |-> "Content can't be empty"]
    ELSE Nil

\* http.NewRequest(method, urlStr, r)
NewRequest(method, url) ==
    IF ValidEscapes(url)
    THEN [err |-> Nil, req |-> [method |-> method, url |-> url, cookies |-> <<>>]]
    ELSE [err |-> [kind |-> "url.Error", url |-> url],
          req |-> [method |-> method, url |-> <<>>, cookies |-> <<>>]]

\* do without its req.AddCookie
AddCookieNone(req, cook) == req

\* req.AddCookie(c.cook)
AddCookie(req, cook) == [req EXCEPT !.cookies = @ \o <<cook>>]

\* do with a second ctxhttp.Do of the same request
DoSendTwice(req) == <<req, req>>

\* the requests one run of do hands to the transport: the one ctxhttp.Do
DoSend(req) == <<req>>

\* do returning an error of its own in place of the one ctxhttp.Do gave it
DoFailedRewrapped(err) ==
    [code |-> -1, err |-> [kind |-> "TransportError"], dr |-> ZeroResp]

\* do when ctxhttp.Do fails: return -1, err
DoFailed(err) == [code |-> -1, err |-> err, dr |-> ZeroResp]

\* do when ioutil.ReadAll fails: return -1, err
DoReadFailed(err) == [code |-> -1, err |-> err, dr |-> ZeroResp]

\* do once the body is read: return resp.StatusCode, json.Unmarshal(body, obj)
DoDecoded(op, status, body) ==
    LET u == Unmarshal(op, body)
    IN  [code |-> status, err |-> u.err, dr |-> u.dr]

\* &APIError{StatusCode: code, ErrorCode: dr.ErrorCode, ErrorMsg: dr.Error}
APIError(code, dr) ==
    [kind |-> "APIError", StatusCode |-> code, ErrorCode |-> dr.ErrorCode,
     ErrorMsg |-> dr.Error]

\* Finish without its test of dr.Succeeded
FinishIgnoreSucceeded(d) ==
    IF d.err # Nil THEN [val |-> NoValue, err |-> d.err]
    ELSE [val |-> d.dr.Payload, err |-> Nil]

\* Finish with a test of the status code put before that of dr.Succeeded
FinishCheckStatus(d) ==
    IF d.err # Nil THEN [val |-> NoValue, err |-> d.err]
    ELSE IF ~Is2xx(d.code) \/ ~d.dr.Succeeded
    THEN [val |-> NoValue, err |-> APIError(d.code, d.dr)]
    ELSE [val |-> d.dr.Payload, err |-> Nil]

\* what an operation returns once do has returned d
Finish(d) ==
    IF d.err # Nil THEN [val |-> NoValue, err |-> d.err]
    ELSE IF ~d.dr.Succeeded THEN [val |-> NoValue, err |-> APIError(d.code, d.dr)]
    ELSE [val |-> d.dr.Payload, err |-> Nil]

-----------------------------------------------------------------------------
(* Login and NewClient *)

InvalidLogin(msg) == [kind |-> "InvalidLogin", msg |-> msg]

\* LoginResult without the test of cook.Value
LoginResultAnyValue(status, cookies) ==
    IF status # 200
    THEN [val |-> NoValue, err |-> InvalidLogin("login HTTP status code")]
    ELSE LET hits == {i \in 1..Len(cookies) : cookies[i].Name = "hoverauth"}
         IN  IF hits = {}
             THEN [val |-> NoValue,
                   err |-> InvalidLogin("unable to find 'hoverauth' cookie")]
             ELSE [val |-> Value(cookies[CHOOSE i \in hits :
                                             \A j \in hits : i <= j]),
                   err |-> Nil]

\* Login once ctxhttp.Get has answered with this status and these cookies
\* (r.Cookies(), in the order of the response's Set-Cookie headers)
LoginResult(status, cookies) ==
    IF status # 200
    THEN [val |-> NoValue, err |-> InvalidLogin("login HTTP status code")]
    ELSE LET hits == {i \in 1..Len(cookies) :
                          cookies[i].Name = "hoverauth" /\ cookies[i].Value # ""}
         IN  IF hits = {}
             THEN [val |-> NoValue,
                   err |-> InvalidLogin("unable to find 'hoverauth' cookie")]
             ELSE [val |-> Value(cookies[CHOOSE i \in hits :
                                             \A j \in hits : i <= j]),
                   err |-> Nil]

\* Login when ctxhttp.Get fails: return nil, err
LoginFailed(err) == [val |-> NoValue, err |-> err]

\* NewClient(hc, loginCookie)
NewClient(hc, loginCookie) == [hc |-> hc, cook |-> loginCookie]

NoClient == [nil |-> TRUE]

Cookies ==
    {[Name |-> "hoverauth", Value |-> "abc123"],
     [Name |-> "hoverauth", Value |-> "tok2"],
     [Name |-> "hoverauth", Value |-> ""],
     [Name |-> "session", Value |-> "s3cr3t"]}

CookieLists == UNION {[1..n -> Cookies] : n \in 0..MaxCookies}

LoginStatuses == {200, 403}

Usernames == {"alice"}

Passwords == {"hunter2"}

NoResp == [none |-> TRUE]

NoRet == [none |-> TRUE]

IdleLogin == [pc |-> "idle", sent |-> <<>>, resp |-> NoResp, ret |-> NoRet]

\* Login up to its ctxhttp.Get: the credentials go into the query string
LoginCall(username, password) ==
    /\ client = NoClient
    /\ login.pc = "idle"
    /\ login' = [login EXCEPT
                     !.pc = "inflight",
                     !.sent = <<[method |-> "GET",
                                 url |-> <<defaultURL, "/login?", "password=",
                                           password, "&username=", username>>,
                                 cookies |-> <<>>]>>]
    /\ UNCHANGED <<client, call, nreq, codec>>

\* the server answers the login request
LoginRespond(status, cookies) ==
    /\ login.pc = "inflight"
    /\ login' = [login EXCEPT
                     !.pc = "done",
                     !.resp = [status |-> status, cookies |-> cookies],
                     !.ret = LoginResult(status, cookies)]
    /\ UNCHANGED <<client, call, nreq, codec>>

\* ctxhttp.Get returns an error
LoginTransportError ==
    /\ login.pc = "inflight"
    /\ login' = [login EXCEPT
                     !.pc = "done",
                     !.ret = LoginFailed([kind |-> "TransportError"])]
    /\ UNCHANGED <<client, call, nreq, codec>>

\* the caller drops a failed Login's result (and may log in again)
LoginReturn ==
    /\ login.pc = "done"
    /\ login.ret.err # Nil
    /\ login' = IdleLogin
    /\ UNCHANGED <<client, call, nreq, codec>>

\* the caller passes Login's cookie to NewClient; Login's locals are gone
NewClientCall ==
    /\ client = NoClient
    /\ login.pc = "done"
    /\ login.ret.err = Nil
    /\ client' = NewClient("hc", login.ret.val.v)
    /\ login' = IdleLogin
    /\ UNCHANGED <<call, nreq, codec>>

-----------------------------------------------------------------------------
(* The operations of a Client, called concurrently *)

Callers == {"g1", "g2"}

\* domain and record identifiers the callers pass
IDs == {<<>>, D1, <<"%">>}

FromSmall(n) == <<n, 0, 0, 0>>

\* the records the callers pass to AddDNSRecord
Recs ==
    {[Type |-> "TXT", Name |-> "_acme-challenge", Content |-> "coolstuff",
      TTL |-> TimesSecond(FromSmall(900))],
     [Type |-> "A", Name |-> "www", Content |-> "",
      TTL |-> TimesSecond(FromSmall(900))]}

NoRec == [nil |-> TRUE]

IdleCall ==
    [pc |-> "idle", op |-> "none", id |-> <<>>, rec |-> NoRec, ctx |-> "live",
     sent |-> <<>>, resp |-> NoResp, ret |-> NoRet]

\* ctx.Err() once the context is done
CtxErrors == {"canceled", "deadline exceeded"}

CtxErr(ctx) == [kind |-> "context", msg |-> ctx]

\* an operation from its call to its ctxhttp.Do: the precondition checks, the
\* request built by do, the cookie added, the request handed to the transport
StartCall(c, op, id, rec) ==
    /\ client # NoClient
    /\ LET pre  == Precondition(op, id, rec)
           nr   == NewRequest(Method(op), URLOf(op, id, rec))
           out  == DoSend(AddCookie(nr.req, client.cook))
           base == [IdleCall EXCEPT !.op = op, !.id = id, !.rec = rec]
       IN  IF pre # Nil
           THEN /\ call' = [call EXCEPT ![c] =
                                [base EXCEPT !.pc = "done",
                                             !.ret = [val |-> NoValue, err |-> pre]]]
                /\ nreq' = nreq
           ELSE IF nr.err # Nil
           THEN /\ call' = [call EXCEPT ![c] =
                                [base EXCEPT !.pc = "done",
                                             !.ret = Finish(DoFailed(nr.err))]]
                /\ nreq' = nreq
           ELSE /\ nreq + Len(out) <= MaxRequests
                /\ call' = [call EXCEPT ![c] =
                                [base EXCEPT !.pc = "inflight", !.sent = out]]
                /\ nreq' = nreq + Len(out)
    /\ UNCHANGED <<client, login, codec>>

Domains(c) ==
    /\ call[c].pc = "idle"
    /\ StartCall(c, "Domains", <<>>, NoRec)

DNS(c) ==
    /\ call[c].pc = "idle"
    /\ StartCall(c, "DNS", <<>>, NoRec)

GetDomain(c, domainID) ==
    /\ call[c].pc = "idle"
    /\ StartCall(c, "GetDomain", domainID, NoRec)

GetDNSDomains(c, domainID) ==
    /\ call[c].pc = "idle"
    /\ StartCall(c, "GetDNSDomains", domainID, NoRec)

AddDNSRecord(c, domainID, rec) ==
    /\ call[c].pc = "idle"
    /\ StartCall(c, "AddDNSRecord", domainID, rec)

DeleteDNSRecord(c, dnsID) ==
    /\ call[c].pc = "idle"
    /\ StartCall(c, "DeleteDNSRecord", dnsID, NoRec)

\* the caller's context is cancelled, or its deadline passes, while the
\* request is in flight
Cancel(c, why) ==
    /\ call[c].pc = "inflight"
    /\ call[c].ctx = "live"
    /\ call' = [call EXCEPT ![c].ctx = why]
    /\ UNCHANGED <<client, login, nreq, codec>>

\* ctxhttp.Do gives up the request of a done context and returns ctx.Err()
CtxAbort(c) ==
    /\ call[c].pc = "inflight"
    /\ call[c].ctx # "live"
    /\ call' = [call EXCEPT ![c].pc = "done",
                            ![c].ret = Finish(DoFailed(CtxErr(call[c].ctx)))]
    /\ UNCHANGED <<client, login, nreq, codec>>

\* ctxhttp.Do returns an error of the transport
TransportError(c) ==
    /\ call[c].pc = "inflight"
    /\ call[c].ctx = "live"
    /\ call' = [call EXCEPT ![c].pc = "done",
                            ![c].ret = Finish(DoFailed([kind |-> "TransportError"]))]
    /\ UNCHANGED <<client, login, nreq, codec>>

\* the response arrives and reading its body fails
ReadError(c) ==
    /\ call[c].pc = "inflight"
    /\ call[c].ctx = "live"
    /\ call' = [call EXCEPT ![c].pc = "done",
                            ![c].ret = Finish(DoReadFailed([kind |-> "ReadError"]))]
    /\ UNCHANGED <<client, login, nreq, codec>>

\* the response arrives, do decodes its body, the operation returns
Respond(c, status, body) ==
    /\ call[c].pc = "inflight"
    /\ call[c].ctx = "live"
    /\ body \in Bodies(call[c].op)
    /\ call' = [call EXCEPT ![c].pc = "done",
                            ![c].resp = [status |-> status, body |-> body],
                            ![c].ret = Finish(DoDecoded(call[c].op, status, body))]
    /\ UNCHANGED <<client, login, nreq, codec>>

\* the caller has its result and is free to call again
Return(c) ==
    /\ call[c].pc = "done"
    /\ call' = [call EXCEPT ![c] = IdleCall]
    /\ UNCHANGED <<client, login, nreq, codec>>

NoCodec == [fn |-> "none", in |-> <<>>, done |-> TRUE, out |-> NoRet]

Init ==
    /\ client = NoClient
    /\ login = IdleLogin
    /\ call = [c \in Callers |-> IdleCall]
    /\ nreq = 0
    /\ codec = NoCodec

Next ==
    \/ \E u \in Usernames, p \in Passwords : LoginCall(u, p)
    \/ \E s \in LoginStatuses, cs \in CookieLists : LoginRespond(s, cs)
    \/ LoginTransportError
    \/ LoginReturn
    \/ NewClientCall
    \/ \E c \in Callers : Domains(c)
    \/ \E c \in Callers : DNS(c)
    \/ \E c \in Callers, id \in IDs : GetDomain(c, id)
    \/ \E c \in Callers, id \in IDs : GetDNSDomains(c, id)
    \/ \E c \in Callers, id \in IDs, rec \in Recs : AddDNSRecord(c, id, rec)
    \/ \E c \in Callers, id \in IDs : DeleteDNSRecord(c, id)
    \/ \E c \in Callers, why \in CtxErrors : Cancel(c, why)
    \/ \E c \in Callers : CtxAbort(c)
    \/ \E c \in Callers : TransportError(c)
    \/ \E c \in Callers : ReadError(c)
    \/ \E c \in Callers, s \in Statuses :
           \E b \in Bodies(call[c].op) : Respond(c, s, b)
    \/ \E c \in Callers : Return(c)

Spec == Init /\ [][Next]_vars

-----------------------------------------------------------------------------
(* The scalar codecs applied to bounded inputs *)

Years == {<<"2", "0", "2", "0">>, <<"2", "0", "2", "1">>}

Months == {<<"0", "2">>, <<"0", "3">>, <<"1", "2">>, <<"1", "3">>}

Days == {<<"0", "5">>, <<"2", "9">>, <<"3", "0">>, <<"3", "1">>, <<"3", "2">>}

Separators == {"-", "/"}

Null == <<"n", "u", "l", "l">>

\* year, month and day texts joined by a separator, bare and as JSON strings,
\* and a few other JSON values
DateTexts ==
    {y \o <<sep>> \o m \o <<sep>> \o d :
         y \in Years, m \in Months, d \in Days, sep \in Separators}

DateInputs ==
    DateTexts \cup {Lit(t) : t \in DateTexts}
        \cup {Null, Lit(<<>>), Lit(<<"2", "0", "2", "0", "-", "3", "-", "5">>)}

YearMonthTexts ==
    {y \o <<sep>> \o m : y \in Years, m \in Months, sep \in Separators}

YearMonthInputs ==
    YearMonthTexts \cup {Lit(t) : t \in YearMonthTexts} \cup {Null, Lit(<<>>)}

\* decimal integers without leading zeros, of at most MaxDigits digits
Decimals ==
    UNION {{<<a>> \o t : a \in {"1", "9"}, t \in [1..n -> {"0", "9"}]} :
               n \in 0..(MaxDigits - 1)}

\* the largest and the smallest second counts and integers near the limits
\* of int64 nanoseconds and of int
MaxSeconds == <<"9", "2", "2", "3", "3", "7", "2", "0", "3", "6">>

OverSeconds == <<"9", "2", "2", "3", "3", "7", "2", "0", "3", "7">>

MaxInt ==
    <<"9", "2", "2", "3", "3", "7", "2", "0", "3", "6",
      "8", "5", "4", "7", "7", "5", "8", "0", "7">>

OverInt ==
    <<"9", "2", "2", "3", "3", "7", "2", "0", "3", "6",
      "8", "5", "4", "7", "7", "5", "8", "0", "8">>

TTLInputs ==
    Decimals
        \cup {Lit(t) : t \in Decimals}
        \cup {<<"0">>, <<"-", "5">>, <<"1", "e", "3">>, <<"1", ".", "5">>,
              <<"t", "r", "u", "e">>, Null, Lit(<<>>),
              MaxSeconds, OverSeconds, <<"-">> \o MaxSeconds,
              <<"-">> \o OverSeconds, MaxInt, OverInt}

IDInputs ==
    {Lit(D1), Lit(D2), Lit(<<>>), Lit(<<"%">>), D1, <<"7">>, Null,
     <<Q, "d", "1">>, <<"d", "1", Q>>}

\* durations a caller may put in a NewDNSRecord: whole seconds, and some
\* that are not
WholeDurations ==
    {TimesSecond(Atoi(t).val) :
         t \in Decimals \cup {<<"0">>, <<"-", "5">>, MaxSeconds,
                              <<"-">> \o MaxSeconds}}

DurationInputs ==
    WholeDurations \cup {MulPow10(FromSmall(15), 8), FromSmall(1),
                         Neg64(MulPow10(FromSmall(25), 8))}

CodecInputs ==
    [Date |-> DateInputs, YearMonth |-> YearMonthInputs, TTL |-> TTLInputs,
     DomainID |-> IDInputs, DNSRecordID |-> IDInputs, RecordType |-> IDInputs,
     TTLParam |-> DurationInputs]

Codecs == DOMAIN CodecInputs

CodecInit ==
    /\ client = NoClient
    /\ login = IdleLogin
    /\ call = [c \in Callers |-> IdleCall]
    /\ nreq = 0
    /\ \E fn \in Codecs : \E b \in CodecInputs[fn] :
           codec = [fn |-> fn, in |-> b, done |-> FALSE, out |-> NoRet]

\* the pending input is replaced by the codec's output
Apply(out) ==
    /\ ~codec.done
    /\ codec' = [codec EXCEPT !.done = TRUE, !.out = out]
    /\ UNCHANGED <<client, login, call, nreq>>

DecodeDate ==
    /\ codec.fn = "Date"
    /\ Apply(DateUnmarshalJSON(codec.in))

DecodeYearMonth ==
    /\ codec.fn = "YearMonth"
    /\ Apply(YearMonthUnmarshalJSON(codec.in))

DecodeTTL ==
    /\ codec.fn = "TTL"
    /\ Apply(TTLUnmarshalJSON(codec.in))

DecodeDomainID ==
    /\ codec.fn = "DomainID"
    /\ Apply(DomainIDUnmarshalJSON(codec.in))

DecodeDNSRecordID ==
    /\ codec.fn = "DNSRecordID"
    /\ Apply(DNSRecordIDUnmarshalJSON(codec.in))

DecodeRecordType ==
    /\ codec.fn = "RecordType"
    /\ Apply(RecordTypeUnmarshalJSON(codec.in))

\* the ttl parameter AddDNSRecord sends for a duration, and what the TTL
\* codec makes of that text
EncodeTTL ==
    /\ codec.fn = "TTLParam"
    /\ Apply([param |-> TTLParam(codec.in),
              back |-> TTLUnmarshalJSON(TTLParam(codec.in))])

CodecNext ==
    \/ DecodeDate
    \/ DecodeYearMonth
    \/ DecodeTTL
    \/ DecodeDomainID
    \/ DecodeDNSRecordID
    \/ DecodeRecordType
    \/ EncodeTTL

CodecSpec == CodecInit /\ [][CodecNext]_vars

-----------------------------------------------------------------------------
(* Scheduling: ctxhttp.Do watches ctx.Done() while the request is in flight, *)
(* so a call whose context is done does get its ctx.Err() back.             *)

Fairness == \A c \in Callers : WF_vars(CtxAbort(c))

FairSpec == Init /\ [][Next]_vars /\ Fairness

-----------------------------------------------------------------------------
(* Properties *)

\* caller c's operation has returned after a response whose body was read
Answered(c) == call[c].pc = "done" /\ "body" \in DOMAIN call[c].resp

C2_Original ==
    \A c \in Callers :
        (Answered(c) /\ ~Is2xx(call[c].resp.status))
            => /\ call[c].ret.err.kind = "APIError"
               /\ call[c].ret.err.StatusCode = call[c].resp.status

\* C2 amended: the HTTP status does not decide the outcome.  An operation
\* fails with an APIError exactly when a response was read whose body decodes
\* with succeeded = false, and the APIError then carries the response's
\* status; a response, 2xx or not, whose body decodes with succeeded = true
\* is returned as a success, and one whose body does not decode fails with
\* the decoding error.
C2_APIErrorIffNotSucceeded ==
    \A c \in Callers :
        LET k == call[c]
            u == Unmarshal(k.op, k.resp.body)
        IN  /\ (k.pc = "done" /\ k.ret.err.kind = "APIError") => Answered(c)
            /\ Answered(c) =>
                   /\ k.ret.err.kind = "APIError"
                          <=> (u.err = Nil /\ ~k.resp.body.succeeded)
                   /\ k.ret.err.kind = "APIError"
                          => k.ret.err.StatusCode = k.resp.status
                   /\ (u.err = Nil /\ k.resp.body.succeeded) => k.ret.err = Nil
                   /\ u.err # Nil => k.ret.err = u.err

\* a 400 response whose body says succeeded = true has been returned to the
\* caller as a success
C2_Witness ==
    \E c \in Callers :
        /\ Answered(c)
        /\ call[c].resp.status = 400
        /\ call[c].resp.body.json
        /\ call[c].resp.body.succeeded
        /\ call[c].ret.err = Nil

\* the call breaks a client-side precondition of the specification
BreaksPrecondition(k) ==
    \/ k.op \in {"GetDomain", "GetDNSDomains", "AddDNSRecord"} /\ k.id = <<>>
    \/ k.op = "AddDNSRecord" /\ k.rec.Content = ""

\* C3: GetDomain, GetDNSDomains and AddDNSRecord with an empty domainID, and
\* AddDNSRecord with empty Content, fail with a precondition error and hand
\* no request to the transport, at the call or later.
C3_PreconditionSendsNothing ==
    [][\A c \in Callers :
           (call'[c].pc # "idle" /\ BreaksPrecondition(call'[c]))
               => /\ call'[c].pc = "done"
                  /\ call'[c].sent = <<>>
                  /\ call'[c].ret.err.kind = "errors.New"
                  /\ call'[c].ret.val = NoValue
                  /\ call[c].pc = "idle" => nreq' = nreq]_vars

\* AddDNSRecord with a domainID and empty Content has returned, nothing sent
C3_Witness ==
    \E c \in Callers :
        /\ call[c].pc = "done"
        /\ call[c].op = "AddDNSRecord"
        /\ call[c].id = D1
        /\ call[c].rec.Content = ""
        /\ call[c].sent = <<>>
        /\ nreq = 0

\* the cookies of a login response that can serve as the credential
AuthCookies(cookies) ==
    {i \in 1..Len(cookies) :
         cookies[i].Name = "hoverauth" /\ cookies[i].Value # ""}

\* C4: Login returns a credential iff the status is 200 and the response
\* carries a hoverauth cookie with a non-empty value, and the credential is
\* such a cookie of the response; every other response yields InvalidLogin.
C4_LoginCredential ==
    (login.pc = "done" /\ login.resp # NoResp) =>
        LET r == login.resp
            ok == r.status = 200 /\ AuthCookies(r.cookies) # {}
        IN  /\ login.ret.err = Nil <=> ok
            /\ ok => \E i \in AuthCookies(r.cookies) :
                         login.ret.val = Value(r.cookies[i])
            /\ ~ok => /\ login.ret.err.kind = "InvalidLogin"
                      /\ login.ret.val = NoValue

\* a 200 response whose second cookie is the first usable hoverauth cookie
\* has yielded that cookie's value
C4_Witness ==
    /\ login.pc = "done"
    /\ login.resp # NoResp
    /\ login.resp.status = 200
    /\ Len(login.resp.cookies) = 2
    /\ login.resp.cookies[1].Value = ""
    /\ login.ret.err = Nil
    /\ login.ret.val.v.Value = "abc123"

\* the calendar dates among the date texts, and the Time each spells
CalendarDates ==
    {<<y, m, d>> \in Years \X Months \X Days :
         Num2(m) \in 1..12 /\ Num2(d) \in 1..DaysIn(Num2(m), Num4(y))}

CalendarMonths == {<<y, m>> \in Years \X Months : Num2(m) \in 1..12}

\* C5: decoding a quoted, well-formed YYYY-MM-DD string as a Date returns no
\* error and yields that date; decoding an unquoted or malformed string
\* fails.  The same for YearMonth and quoted YYYY/MM strings.
C5_DateDecodes ==
    /\ (codec.fn = "Date" /\ codec.done) =>
           IF \E t \in CalendarDates :
                  codec.in = Lit(t[1] \o <<"-">> \o t[2] \o <<"-">> \o t[3])
           THEN /\ codec.out.err = Nil
                /\ \E t \in CalendarDates :
                       /\ codec.in = Lit(t[1] \o <<"-">> \o t[2] \o <<"-">> \o t[3])
                       /\ codec.out.time = [year |-> Num4(t[1]),
                                            month |-> Num2(t[2]),
                                            day |-> Num2(t[3])]
           ELSE codec.out.err # Nil
    /\ (codec.fn = "YearMonth" /\ codec.done) =>
           IF \E t \in CalendarMonths : codec.in = Lit(t[1] \o <<"/">> \o t[2])
           THEN codec.out.err = Nil
           ELSE codec.out.err # Nil

\* a wire domain whose fields all have the shape their decoders expect
WellFormedDomain(w) ==
    /\ Quoted(w.id)
    /\ {w.renewal_date, w.display_date, w.registered_date}
           \subseteq {Absent, Lit(GoodDate)}
    /\ w.card_expires \in {Absent, Lit(GoodYearMonth)}

\* C6: whenever the response to Domains is a JSON envelope with
\* succeeded = true, the call returns without error the domains of the
\* payload, in wire order, each with its ID and DomainName as sent, also
\* when domains carry well-formed renewal_date, display_date,
\* registered_date or card_expires fields.
C6_DomainsReturned ==
    \A c \in Callers :
        LET k == call[c]
            ws == k.resp.body.payload.json
        IN  (/\ Answered(c)
             /\ k.op = "Domains"
             /\ k.resp.body.json
             /\ k.resp.body.succeeded
             /\ \A i \in 1..Len(ws) : WellFormedDomain(ws[i]))
            => /\ k.ret.err = Nil
               /\ ~k.ret.val.nil
               /\ Len(k.ret.val.v) = Len(ws)
               /\ \A i \in 1..Len(ws) :
                      /\ k.ret.val.v[i].ID = Strip(ws[i].id)
                      /\ k.ret.val.v[i].DomainName = ws[i].domain_name

\* C7: when the context of an in-flight operation is cancelled or its
\* deadline passes before the response is received, the call returns, with
\* ctx.Err(): an error that is neither an APIError nor an error of the
\* transport, and with no payload.
C7_CancelReturns ==
    \A c \in Callers :
        (call[c].pc = "inflight" /\ call[c].ctx # "live")
            ~> (/\ call[c].pc = "done"
                /\ call[c].ctx # "live"
                /\ call[c].ret.err = CtxErr(call[c].ctx)
                /\ call[c].ret.err.kind \notin {"APIError", "TransportError"}
                /\ call[c].ret.val = NoValue)

\* DeleteDNSRecord, cancelled in flight, has returned "canceled"
C7_Witness ==
    \E c \in Callers :
        /\ call[c].pc = "done"
        /\ call[c].op = "DeleteDNSRecord"
        /\ call[c].ctx = "canceled"
        /\ Len(call[c].sent) = 1
        /\ call[c].ret.err = CtxErr("canceled")

\* C8 as stated: every call whose client-side preconditions hold issues
\* exactly one request.
C8_Original ==
    \A c \in Callers :
        (call[c].pc # "idle" /\ ~BreaksPrecondition(call[c]))
            => Len(call[c].sent) = 1

\* C8 amended: a call whose client-side preconditions hold issues exactly one
\* request when http.NewRequest accepts its URL and none when it does not (an
\* identifier with a "%" that is no escape); the request goes out at the
\* call, the transport's count grows by exactly one with it and by nothing
\* else, and no outcome adds a second request.  DeleteDNSRecord sends its
\* request for an empty ID too, and equal calls send one request each.
C8_OneRequestPerCall ==
    [][/\ \A c \in Callers :
              LET k == call'[c]
                  fits == ValidEscapes(URLOf(k.op, k.id, k.rec))
              IN  /\ (k.pc # "idle" /\ ~BreaksPrecondition(k))
                         => Len(k.sent) = (IF fits THEN 1 ELSE 0)
                  /\ (call[c].pc = "idle" /\ k.pc = "inflight")
                         => nreq' = nreq + 1
                  /\ (call[c].pc # "idle" /\ k.pc # "idle")
                         => k.sent = call[c].sent
                  /\ (k.op = "DeleteDNSRecord" /\ k.id = <<>>)
                         => Len(k.sent) = 1
       /\ nreq' # nreq
              => \E c \in Callers :
                     call[c].pc = "idle" /\ call'[c].pc = "inflight"]_vars

\* two equal AddDNSRecord calls are in flight with one request each, and the
\* transport has counted two
C8_Witness ==
    /\ \A c \in Callers :
           /\ call[c].pc = "inflight"
           /\ call[c].op = "AddDNSRecord"
           /\ call[c].id = D1
           /\ call[c].rec.Content = "coolstuff"
           /\ Len(call[c].sent) = 1
    /\ \A c, d \in Callers : call[c].sent = call[d].sent
    /\ nreq = 2

\* C9: every request of every operation carries, as its cookie, the
\* credential the Client was made with, and no step of any interleaving of
\* calls changes the Client's credential or transport after NewClient.
C9_CredentialAttached ==
    [][/\ client # NoClient => client' = client
       /\ \A c \in Callers : \A i \in 1..Len(call'[c].sent) :
              call'[c].sent[i].cookies = <<client'.cook>>]_vars

\* two different calls are in flight at once on a Client made with the
\* cookie tok2, each request with that cookie
C9_Witness ==
    /\ client # NoClient
    /\ \A c \in Callers :
           /\ call[c].pc = "inflight"
           /\ call[c].sent[1].cookies
                  = <<[Name |-> "hoverauth", Value |-> "tok2"]>>
    /\ \E c, d \in Callers : call[c].op # call[d].op

\* nine zeros
Nanos == [i \in 1..9 |-> "0"]

\* C10: TTL decode of a bare decimal integer n yields exactly n seconds;
\* TTL decode of a quoted integer or of other non-numeric text fails;
\* AddDNSRecord sends the whole seconds of the record's TTL, and decoding
\* what it sent gives back a TTL of whole seconds.
C10_TTLSeconds ==
    /\ (codec.fn = "TTL" /\ codec.done) =>
           IF AllDigits(codec.in)
           THEN /\ codec.out.err = Nil
                /\ Itoa(codec.out.val)
                       = (IF codec.in = <<"0">> THEN codec.in
                          ELSE codec.in \o Nanos)
           ELSE (Quoted(codec.in) \/ ~IsDigit(codec.in[Len(codec.in)]))
                    => codec.out.err # Nil
    /\ (codec.fn = "TTLParam" /\ codec.done /\ codec.in \in WholeDurations) =>
           /\ codec.out.back.err = Nil
           /\ codec.out.back.val = codec.in

====
